---- MODULE Spec2Model ----
(***************************************************************************)
(* rcmerkle (src/src/lib.rs): the Merkle root of a list of digests, as a   *)
(* batch computation (MerkleTree) and as an incremental state machine      *)
(* (BetterMerkleTree).                                                     *)
(*                                                                         *)
(* Digests.  The code is generic over the trait Hash; SHA256 and Keccak256 *)
(* are the two instances.  A digest is modelled as a term:                 *)
(*   Zero            the all-zero array, H::default()                      *)
(*   hash(data)      <<"H", data>>, the digest of the byte string data     *)
(* so hash is deterministic, collision free and never returns Zero, which  *)
(* is the idealisation of SHA-256 / SHA3-256.  A byte string is a sequence *)
(* of symbols; to_string(h) is the symbol "0x" followed by the hex digits  *)
(* of h, kept as one block <<"0x", h>>, so the concatenation of two        *)
(* encodings is <<"0x", l, "0x", r>>.                                      *)
(***************************************************************************)
EXTENDS Naturals, Sequences, FiniteSets

\* ------------------------------------------------------------------ bounds

\* Longest list handed to MerkleTree::root.
MaxLen == 6
\* Most digests fed to an instance created by new().
MaxFeeds == 8
\* Longest slot vector handed to load, and most digests fed after a load.
MaxLoadLen == 2
MaxLoadFeeds == 2
\* Save/restore: most feeds before helper() is taken, and after it.
MaxPre == 3
MaxPost == 2

\* ----------------------------------------------------------------- digests

\* H::default(): [0u8; 32].
Zero == <<>>

\* Hash::hash(data).
hash(data) == <<"H", data>>

\* Hash::to_string(h): "0x" and the hex digits of h.
to_string(h) == <<"0x", h>>

\* s1 = to_string(l); s1.push_str(to_string(r)); H::hash(s1.as_bytes())
hash_pair(l, r) == hash(to_string(l) \o to_string(r))

\* The leaves fed by the tests are hashes of one-letter strings; Zero is the
\* one digest a caller can build without hashing (Default is a supertrait).
LeafA == hash(<<"a">>)
LeafB == hash(<<"b">>)
Leaves == {Zero, LeafA, LeafB}

RECURSIVE SeqsUpTo(_, _)
SeqsUpTo(S, n) ==
    IF n = 0 THEN {<<>>}
    ELSE LET shorter == SeqsUpTo(S, n - 1)
         IN  shorter \cup {Append(s, x) : s \in {t \in shorter : Len(t) = n - 1}, x \in S}

\* --------------------------------------------------------------- MerkleTree

\* Faulty variants of pad: no padding; padding with the default digest.
pad_none(vec) == vec
pad_zero(vec) == IF Len(vec) % 2 = 1 THEN Append(vec, Zero) ELSE vec
\* if m == 1 { vec.push(vec[vec_len - 1].clone()); r += 1 }
pad(vec) == IF Len(vec) % 2 = 1 THEN Append(vec, vec[Len(vec)]) ELSE vec

\* (next_level_swapped: a faulty variant that hashes the right child first.)
next_level_swapped(vec) ==
    LET p == pad(vec)
    IN  [i \in 1..(Len(p) \div 2) |-> hash_pair(p[2 * i], p[2 * i - 1])]

\* for i in 0..r { next.push(hash(to_string(vec[2i]) + to_string(vec[2i+1]))) }
next_level(vec) ==
    LET p == pad(vec)
    IN  [i \in 1..(Len(p) \div 2) |-> hash_pair(p[2 * i - 1], p[2 * i])]

\* MerkleTree::merkle: one element is returned as is, anything else is reduced
\* and recursed on (an empty vector would recurse for ever).
\* (is_single_none: a faulty variant that tests for the empty vector.)
is_single_none(vec) == Len(vec) = 0
is_single(vec) == Len(vec) = 1

RECURSIVE MerkleTree_merkle(_)
MerkleTree_merkle(vec) ==
    IF is_single(vec) THEN vec ELSE MerkleTree_merkle(next_level(vec))

\* MerkleTree::root: the guard on the empty list.
\* (no_guard: a faulty variant without it.)
no_guard(hashes) == FALSE
is_empty(hashes) == Len(hashes) = 0

MerkleTree_root(hashes) ==
    IF is_empty(hashes) THEN Zero ELSE MerkleTree_merkle(hashes)[1]

\* ---------------------------------------------------------- BetterMerkleTree

\* Instance 1 is the instance under test; instance 2 is one rebuilt from
\* instance 1's saved slots.
Inst == {1, 2}

VARIABLES
    slots,        \* [Inst -> Seq(digest)]: self.0, one slot per level
    currentRoot,  \* [Inst -> digest]: self.1
    origin,       \* [Inst -> "none" | "new" | "load"]: how the instance was built
    pc,           \* "idle" | "merkle" (in a frame of merkle) | "ret" | "panic"
    self,         \* the instance root() was called on
    new,          \* merkle's argument new
    is_full,      \* merkle's argument is_full
    round,        \* merkle's argument round
    fed,          \* [Inst -> Seq(digest)]: the digests passed to root() so far
    returned,     \* [Inst -> <<>> | <<digest>>]: what the last root() returned
    start,        \* self.0 when the current root() call began
    visited,      \* the rounds of the frames of the current root() call
    branch,       \* the branch the last frame took, and the is_full it had
    pre,          \* Len(fed[1]) when instance 2 was rebuilt
    hashes,       \* MerkleTree::root's argument
    bpc,          \* "root" | "merkle" | "done"
    vec,          \* MerkleTree::merkle's argument
    result,       \* <<>> | <<digest>>: what MerkleTree::root returned
    nhash,        \* calls of H::hash made by MerkleTree::root
    levels        \* Len(vec) of every frame of MerkleTree::merkle entered

ivars == <<slots, currentRoot, origin, pc, self, new, is_full, round, fed,
           returned, start, visited, branch, pre>>
bvars == <<hashes, bpc, vec, result, nhash, levels>>
vars == <<ivars, bvars>>

\* BetterMerkleTree::new(): BetterMerkleTree(vec![], Default::default())
BetterMerkleTree_new == [slots |-> <<>>, root |-> Zero]

\* BetterMerkleTree::load(vec): BetterMerkleTree(vec, Default::default())
\* (load_compact: a faulty variant that drops the empty slots.)
load_compact(v) == [slots |-> SelectSeq(v, LAMBDA h : h # Zero), root |-> Zero]
load(v) == [slots |-> v, root |-> Zero]

\* BetterMerkleTree::helper(&self): &self.0
helper(i) == slots[i]

\* BetterMerkleTree::now(&self): &self.1
now(i) == currentRoot[i]

\* if self.0.len() <= round
\* (at_end_lt: a faulty variant, off by one.)
at_end_lt(v, r) == Len(v) < r
at_end(v, r) == Len(v) <= r

\* Vec's bounds check on self.0[round].
in_bounds(v, r) == r < Len(v)

\* lines 87-92, need_append: no slot differs from H::default().
\* (need_append_always: a faulty variant that appends whatever the slots hold.)
need_append_always(v) == TRUE
need_append(v) == \A k \in 1..Len(v) : v[k] = Zero

\* next_full after each branch: set in the stored-sibling branch when is_full,
\* left at its initial false in the empty-slot branch.
\* (next_full_stored_never: a faulty variant that never carries.)
next_full_stored_never(full) == FALSE
next_full_stored(full) == full
\* (next_full_empty_keep: a faulty variant that stays authoritative.)
next_full_empty_keep(full) == full
next_full_empty(full) == FALSE

\* lines 104-105: if is_full { self.0[round] = H::default() }
\* (slot_after_stored_kept: a faulty variant that leaves the sibling stored.)
slot_after_stored_kept(full, old) == old
slot_after_stored(full, old) == IF full THEN Zero ELSE old

\* lines 114-116: if is_full { self.0[round] = new }
slot_after_empty(full, old, value) == IF full THEN value ELSE old

\* No call of root() is running: no frame of merkle exists.
NoFrame ==
    /\ self = 1
    /\ new = Zero
    /\ is_full = TRUE
    /\ round = 0
    /\ start = <<>>
    /\ visited = <<>>
    /\ branch = [taken |-> "none", full |-> TRUE]

InitInc ==
    /\ slots = [i \in Inst |-> IF i = 1 THEN BetterMerkleTree_new.slots ELSE <<>>]
    /\ currentRoot = [i \in Inst |-> IF i = 1 THEN BetterMerkleTree_new.root ELSE Zero]
    /\ origin = [i \in Inst |-> IF i = 1 THEN "new" ELSE "none"]
    /\ pc = "idle"
    /\ NoFrame
    /\ fed = [i \in Inst |-> <<>>]
    /\ returned = [i \in Inst |-> <<>>]
    /\ pre = 0

\* BetterMerkleTree::root(&mut self, new), up to its call self.merkle(new, true, 0).
BetterMerkleTree_root(i, d) ==
    /\ pc = "idle"
    /\ origin[i] # "none"
    /\ pc' = "merkle"
    /\ self' = i
    /\ new' = d
    /\ is_full' = TRUE
    /\ round' = 0
    /\ fed' = [fed EXCEPT ![i] = Append(@, d)]
    /\ start' = slots[i]
    /\ visited' = <<0>>
    /\ branch' = [taken |-> "none", full |-> TRUE]
    /\ UNCHANGED <<slots, currentRoot, origin, returned, pre>>

\* (MerkleAppend_fresh: a faulty variant of MerkleAppend that also wants self.1
\* to be default before it appends.)
MerkleAppend_fresh ==
    /\ pc = "merkle"
    /\ at_end(slots[self], round)
    /\ slots' = [slots EXCEPT ![self] =
                    IF need_append(@) /\ currentRoot[self] = Zero
                    THEN Append(@, new) ELSE @]
    /\ pc' = "ret"
    /\ branch' = [taken |-> "append", full |-> is_full]
    /\ UNCHANGED <<currentRoot, origin, self, new, is_full, round, fed,
                   returned, start, visited, pre>>
    /\ UNCHANGED <<hashes, bpc, vec, result, nhash, levels>>

\* merkle, lines 86-98: past the last slot; append if no slot is in use; return new.
MerkleAppend ==
    /\ pc = "merkle"
    /\ at_end(slots[self], round)
    /\ slots' = [slots EXCEPT ![self] =
                    IF need_append(@) THEN Append(@, new) ELSE @]
    /\ pc' = "ret"
    /\ branch' = [taken |-> "append", full |-> is_full]
    /\ UNCHANGED <<currentRoot, origin, self, new, is_full, round, fed,
                   returned, start, visited, pre>>
    /\ UNCHANGED bvars

\* merkle, lines 100-109 and 121: the slot holds a sibling.  The index
\* self.0[round] of line 100 panics when round is out of bounds.
MerkleStored ==
    /\ pc = "merkle"
    /\ ~at_end(slots[self], round)
    /\ IF ~in_bounds(slots[self], round)
       THEN /\ pc' = "panic"
            /\ UNCHANGED <<slots, new, is_full, round, visited, branch>>
       ELSE /\ slots[self][round + 1] # Zero
            /\ new' = hash_pair(slots[self][round + 1], new)
            /\ slots' = [slots EXCEPT ![self][round + 1] =
                            slot_after_stored(is_full, @)]
            /\ is_full' = next_full_stored(is_full)
            /\ round' = round + 1
            /\ visited' = Append(visited, round + 1)
            /\ branch' = [taken |-> "stored", full |-> is_full]
            /\ pc' = "merkle"
    /\ UNCHANGED <<currentRoot, origin, self, fed, returned, start, pre>>
    /\ UNCHANGED bvars

\* merkle, lines 110-119 and 121: the slot is empty.
MerkleEmpty ==
    /\ pc = "merkle"
    /\ ~at_end(slots[self], round)
    /\ in_bounds(slots[self], round)
    /\ slots[self][round + 1] = Zero
    /\ new' = hash_pair(new, new)
    /\ slots' = [slots EXCEPT ![self][round + 1] =
                    slot_after_empty(is_full, @, new)]
    /\ is_full' = next_full_empty(is_full)
    /\ round' = round + 1
    /\ visited' = Append(visited, round + 1)
    /\ branch' = [taken |-> "empty", full |-> is_full]
    /\ UNCHANGED <<currentRoot, origin, pc, self, fed, returned, start, pre>>
    /\ UNCHANGED bvars

\* root, lines 147-148: self.1 = hash.clone(); hash.  The frames are gone.
\* (stale_root: a faulty variant that leaves self.1 as it was.)
stale_root(old, h) == old
stored_root(old, h) == h

RootReturn ==
    /\ pc = "ret"
    /\ currentRoot' = [currentRoot EXCEPT ![self] = stored_root(@, new)]
    /\ returned' = [returned EXCEPT ![self] = <<new>>]
    /\ pc' = "idle"
    /\ self' = 1
    /\ new' = Zero
    /\ is_full' = TRUE
    /\ round' = 0
    /\ start' = <<>>
    /\ visited' = <<>>
    /\ branch' = [taken |-> "none", full |-> TRUE]
    /\ UNCHANGED <<slots, origin, fed, pre>>
    /\ UNCHANGED bvars

\* ------------------------------------------------- one instance: new, load, root

LoadVecs == SeqsUpTo(Leaves, MaxLoadLen)

\* The caller feeds the instance under test.
Feed ==
    /\ Len(fed[1]) < (IF origin[1] = "new" THEN MaxFeeds ELSE MaxLoadFeeds)
    /\ \E d \in Leaves : BetterMerkleTree_root(1, d)
    /\ UNCHANGED bvars

\* The caller replaces the instance under test by load(v), any vector v.
Load ==
    /\ pc = "idle"
    /\ origin[1] = "new"
    /\ \E v \in LoadVecs :
          /\ slots' = [slots EXCEPT ![1] = load(v).slots]
          /\ currentRoot' = [currentRoot EXCEPT ![1] = load(v).root]
    /\ origin' = [origin EXCEPT ![1] = "load"]
    /\ fed' = [fed EXCEPT ![1] = <<>>]
    /\ returned' = [returned EXCEPT ![1] = <<>>]
    /\ UNCHANGED <<pc, self, new, is_full, round, start, visited, branch, pre>>
    /\ UNCHANGED bvars

InitIdleBatch ==
    /\ hashes = <<>>
    /\ bpc = "done"
    /\ vec = <<>>
    /\ result = <<>>
    /\ nhash = 0
    /\ levels = <<>>

Init == InitInc /\ InitIdleBatch

Next ==
    \/ Feed
    \/ Load
    \/ MerkleAppend
    \/ MerkleStored
    \/ MerkleEmpty
    \/ RootReturn

Spec == Init /\ [][Next]_vars

\* ------------------------------------------------------------- save / restore

\* The digests fed to instance i since instance 2 was rebuilt.
since(i) == IF i = 1 THEN SubSeq(fed[1], pre + 1, Len(fed[1])) ELSE fed[2]

\* Instance 2 = load(instance 1's helper().clone()).
Restore ==
    /\ pc = "idle"
    /\ origin[2] = "none"
    /\ slots' = [slots EXCEPT ![2] = load(helper(1)).slots]
    /\ currentRoot' = [currentRoot EXCEPT ![2] = load(helper(1)).root]
    /\ origin' = [origin EXCEPT ![2] = "load"]
    /\ pre' = Len(fed[1])
    /\ UNCHANGED <<pc, self, new, is_full, round, fed, returned, start,
                   visited, branch>>
    /\ UNCHANGED bvars

FeedBefore ==
    /\ origin[2] = "none"
    /\ Len(fed[1]) < MaxPre
    /\ \E d \in Leaves : BetterMerkleTree_root(1, d)
    /\ UNCHANGED bvars

FeedAfter ==
    /\ origin[2] = "load"
    /\ \E i \in Inst, d \in Leaves :
          /\ Len(since(i)) < MaxPost
          /\ BetterMerkleTree_root(i, d)
    /\ UNCHANGED bvars

NextRestore ==
    \/ FeedBefore
    \/ Restore
    \/ FeedAfter
    \/ MerkleAppend
    \/ MerkleStored
    \/ MerkleEmpty
    \/ RootReturn

SpecRestore == Init /\ [][NextRestore]_vars

\* ------------------------------------------------------- MerkleTree::root runs

InputLists == SeqsUpTo(Leaves, MaxLen)

InitBatch ==
    /\ InitInc
    /\ hashes \in InputLists
    /\ bpc = "root"
    /\ vec = <<>>
    /\ result = <<>>
    /\ nhash = 0
    /\ levels = <<>>

\* MerkleTree::root, lines 73-77: the empty list returns Default::default(),
\* any other list enters merkle.
BatchRoot ==
    /\ bpc = "root"
    /\ IF is_empty(hashes)
       THEN /\ result' = <<Zero>>
            /\ bpc' = "done"
            /\ UNCHANGED <<vec, levels>>
       ELSE /\ vec' = hashes
            /\ levels' = <<Len(hashes)>>
            /\ bpc' = "merkle"
            /\ UNCHANGED result
    /\ UNCHANGED <<hashes, nhash>>
    /\ UNCHANGED ivars

\* MerkleTree::merkle, lines 49-63: reduce one level and recurse on it.
BatchMerkle ==
    /\ bpc = "merkle"
    /\ ~is_single(vec)
    /\ vec' = next_level(vec)
    /\ nhash' = nhash + Len(next_level(vec))
    /\ levels' = Append(levels, Len(next_level(vec)))
    /\ UNCHANGED <<hashes, bpc, result>>
    /\ UNCHANGED ivars

\* MerkleTree::merkle, lines 45-47, and root's .remove(0).
BatchReturn ==
    /\ bpc = "merkle"
    /\ is_single(vec)
    /\ result' = <<vec[1]>>
    /\ bpc' = "done"
    /\ UNCHANGED <<hashes, vec, nhash, levels>>
    /\ UNCHANGED ivars

NextBatch == BatchRoot \/ BatchMerkle \/ BatchReturn

SpecBatch == InitBatch /\ [][NextBatch]_vars

\* The runs of MerkleTree::root are synchronous: a call that can take a step does.
SpecBatchFair == SpecBatch /\ WF_vars(NextBatch)

\* A call of BetterMerkleTree::root runs to its return.
SpecFair ==
    Spec /\ WF_vars(MerkleAppend \/ MerkleStored \/ MerkleEmpty \/ RootReturn)

\* ------------------------------------------------------------------- claims

RECURSIVE BitLen(_)
BitLen(n) == IF n = 0 THEN 0 ELSE 1 + BitLen(n \div 2)

Last(s) == s[Len(s)]

\* C1: after every feed to an instance created by new(), whatever digests are
\* fed, root() returned MerkleTree::root of the digests fed so far.
C1_EquivalenceAnyDigests ==
    (pc = "idle" /\ origin[1] = "new" /\ returned[1] # <<>>)
        => returned[1] = <<MerkleTree_root(fed[1])>>

\* C2: after N feeds, an instance rebuilt by load from helper()'s slots returns,
\* on the same next digest, the root the original returns.
C2_SaveRestoreRoundTrip ==
    (pc = "idle" /\ origin[2] = "load" /\ Len(since(1)) = 1 /\ since(2) = since(1))
        => (returned[2] # <<>> /\ returned[2] = returned[1])

C2_Witness ==
    /\ pc = "idle"
    /\ origin[2] = "load"
    /\ pre = 3
    /\ \E k \in 1..Len(slots[2]) : slots[2][k] = Zero
    /\ Len(since(1)) = 1
    /\ since(2) = since(1)
    /\ returned[2] = returned[1]
    /\ currentRoot[2] # Zero

\* C3 as stated: for every odd-length list, length 1 included, the root is the
\* root of the list with a copy of its last element appended.
C3_PaddingEveryOddLength ==
    (bpc = "done" /\ Len(hashes) % 2 = 1)
        => result = <<MerkleTree_root(Append(hashes, Last(hashes)))>>

\* C3 amended: for every odd-length list of at least 3 digests, the root is the
\* root of the list with a copy of its last element appended.
C3_PaddingOddLengthFrom3 ==
    (bpc = "done" /\ Len(hashes) % 2 = 1 /\ Len(hashes) >= 3)
        => result = <<MerkleTree_root(Append(hashes, Last(hashes)))>>

C3_Witness ==
    /\ bpc = "done"
    /\ Len(hashes) = 5
    /\ hashes[5] # hashes[4]
    /\ hashes[5] # Zero
    /\ result = <<MerkleTree_root(Append(hashes, Last(hashes)))>>

\* C4: in an instance created by new(), after the N-th feed the slot vector is as
\* long as the bit length of N, and the feed made it no shorter and at most one
\* slot longer.
C4_SlotCountIsBitLength ==
    (pc = "ret" /\ origin[self] = "new")
        => /\ Len(slots[self]) = BitLen(Len(fed[self]))
           /\ Len(start) <= Len(slots[self])
           /\ Len(slots[self]) <= Len(start) + 1

\* C5: between calls, now() is what the last root() on the instance returned,
\* and the default digest when root() has not been called since new() or load().
C5_NowIsLastReturned ==
    pc = "idle" =>
        \A i \in Inst :
            origin[i] # "none" =>
                now(i) = (IF returned[i] = <<>> THEN Zero ELSE returned[i][1])

C5_Witness ==
    /\ pc = "idle"
    /\ origin[1] = "load"
    /\ Len(slots[1]) = 2
    /\ Last(slots[1]) # Zero
    /\ Len(fed[1]) = 2
    /\ now(1) = returned[1][1]
    /\ now(1) # Zero

\* C6: on the empty list MerkleTree::root returns the default digest, calls
\* H::hash never and never enters merkle.
C6_EmptyInput ==
    hashes = <<>> =>
        /\ bpc # "merkle"
        /\ levels = <<>>
        /\ nhash = 0
        /\ bpc = "done" => result = <<Zero>>

C6_Witness == hashes = <<>> /\ bpc = "done" /\ result = <<Zero>>

\* C7: on a one-element list MerkleTree::root returns the element and calls
\* H::hash never.
C7_SingleElement ==
    Len(hashes) = 1 =>
        /\ nhash = 0
        /\ Len(levels) <= 1
        /\ bpc = "done" => result = <<hashes[1]>>

C7_Witness ==
    /\ Len(hashes) = 1
    /\ hashes[1] # Zero
    /\ bpc = "done"
    /\ levels = <<1>>
    /\ result = <<hashes[1]>>

\* The walk of a call of root(): no slot is indexed out of bounds, the frames
\* entered are those of rounds 0, 1, ..., k in order, k the slot count when
\* root() was called, and the frame of round k is the one that returns.
C8_WalkShape ==
    /\ pc # "panic"
    /\ pc \in {"merkle", "ret"} =>
          /\ visited = [j \in 1..(round + 1) |-> j - 1]
          /\ round <= Len(start)
    /\ pc = "merkle" => Len(slots[self]) = Len(start)
    /\ pc = "ret" => round = Len(start)

\* C8: in every call of root() the walk has the shape above, and every call
\* that has entered merkle returns.
C8_FeedIsTotal == []C8_WalkShape /\ ((pc = "merkle") ~> (pc = "idle"))

C8_Witness ==
    /\ pc = "ret"
    /\ origin[self] = "load"
    /\ Len(start) = 2
    /\ start[1] # Zero
    /\ start[2] = Zero
    /\ visited = <<0, 1, 2>>

\* The levels of a run of MerkleTree::root: merkle is never entered with an
\* empty sequence, a level of n > 1 digests is followed by one of ceil(n/2), and
\* the last level entered holds exactly one digest.
C9_LevelShape ==
    /\ \A k \in 1..Len(levels) : levels[k] >= 1
    /\ \A k \in 1..(Len(levels) - 1) :
          levels[k] > 1 /\ levels[k + 1] = (levels[k] + 1) \div 2
    /\ bpc = "merkle" => (levels # <<>> /\ levels[1] = Len(hashes)
                                        /\ Last(levels) = Len(vec))
    /\ bpc = "done" => /\ result # <<>>
                       /\ hashes # <<>> => (levels # <<>> /\ Last(levels) = 1)

\* C9: every run of MerkleTree::root has the level shape above and returns.
C9_BatchIsTotal == []C9_LevelShape /\ <>(bpc = "done")

C9_Witness ==
    /\ bpc = "done"
    /\ Len(hashes) = 5
    /\ levels = <<5, 3, 2, 1>>

\* The frame of round r finds slots[r] empty while the walk is authoritative.
EmptyAuthoritative ==
    /\ pc = "merkle"
    /\ is_full
    /\ in_bounds(slots[self], round)
    /\ slots[self][round + 1] = Zero

\* C10 as stated: an empty slot met by an authoritative walk takes the value,
\* and the walk goes on to the next level still authoritative.
C10_EmptyStepStaysAuthoritative ==
    [][EmptyAuthoritative =>
          /\ slots'[self][round + 1] = new
          /\ pc' = "merkle"
          /\ round' = round + 1
          /\ is_full' = TRUE]_vars

\* C10 amended: an empty slot met by an authoritative walk takes the value, and
\* the walk goes on to the next level no longer authoritative.
C10_EmptyStepEndsAuthority ==
    [][EmptyAuthoritative =>
          /\ slots'[self][round + 1] = new
          /\ pc' = "merkle"
          /\ round' = round + 1
          /\ is_full' = FALSE]_vars

C10_Witness ==
    /\ pc = "merkle"
    /\ branch = [taken |-> "empty", full |-> TRUE]
    /\ round = 1
    /\ ~is_full
    /\ slots[self][1] # Zero
    /\ Len(slots[self]) = 3

\* C11: once the walk of a feed is no longer authoritative, no later step of
\* that feed changes the slot vector: no slot is overwritten, reset or appended.
C11_NonAuthoritativeReadOnly ==
    [][(pc = "merkle" /\ ~is_full) => slots' = slots]_vars

\* Bit r of n, and the number of trailing 1-bits of n.
Bit(n, r) == (n \div (2 ^ r)) % 2

RECURSIVE TrailingOnes(_)
TrailingOnes(n) == IF n % 2 = 0 THEN 0 ELSE 1 + TrailingOnes(n \div 2)

\* C12: in an instance created by new() and fed N digests, slots[r] is in use
\* exactly when bit r of N is 1; the next feed empties the slots of the trailing
\* 1-bits of N, fills the slot of the lowest 0-bit and leaves the higher slots.
C12_BinaryCounter ==
    /\ (pc = "idle" /\ origin[1] = "new") =>
          /\ Len(slots[1]) = BitLen(Len(fed[1]))
          /\ \A r \in 0..(Len(slots[1]) - 1) :
                (slots[1][r + 1] # Zero) <=> (Bit(Len(fed[1]), r) = 1)
    /\ (pc = "ret" /\ origin[self] = "new") =>
          LET t == TrailingOnes(Len(fed[self]) - 1)
          IN  /\ Len(slots[self]) > t
              /\ \A r \in 0..(Len(slots[self]) - 1) :
                    /\ r < t => slots[self][r + 1] = Zero
                    /\ r = t => slots[self][r + 1] # Zero
                    /\ r > t => (r < Len(start) /\ slots[self][r + 1] = start[r + 1])


\* The frame of round r finds a stored sibling in slots[r].
StoredSibling ==
    /\ pc = "merkle"
    /\ in_bounds(slots[self], round)
    /\ slots[self][round + 1] # Zero

\* C13: on a stored sibling the value carried to level r+1 is the hash of the
\* sibling's encoding followed by the incoming value's; an authoritative walk
\* empties the slot and stays authoritative, a non-authoritative one leaves it;
\* and no other step leaves the walk authoritative at the next level.
C13_PairingStep ==
    [][/\ StoredSibling =>
            /\ pc' = "merkle"
            /\ round' = round + 1
            /\ new' = hash(to_string(slots[self][round + 1]) \o to_string(new))
            /\ is_full' = is_full
            /\ slots'[self] = [slots[self] EXCEPT ![round + 1] =
                                  IF is_full THEN Zero ELSE @]
       /\ (pc = "merkle" /\ pc' = "merkle" /\ is_full') =>
            (StoredSibling /\ is_full)]_vars

C13_Witness ==
    /\ pc = "merkle"
    /\ branch = [taken |-> "stored", full |-> TRUE]
    /\ round = 2
    /\ is_full
    /\ Len(start) = 3
    /\ slots[self] = <<Zero, Zero, start[3]>>
    /\ start[1] # start[2]
    /\ new = hash_pair(start[2], hash_pair(start[1], fed[self][Len(fed[self])]))


\* The level above v: pairs in order, left child first, the last digest of an
\* odd level paired with itself.
LevelAbove(v) ==
    [j \in 1..((Len(v) + 1) \div 2) |->
        hash(to_string(v[2 * j - 1])
             \o to_string(IF 2 * j <= Len(v) THEN v[2 * j] ELSE v[Len(v)]))]

\* C14: one reduction step takes a sequence of n > 1 digests to the ceil(n/2)
\* hashes of its consecutive pairs, left operand first and in order, an odd
\* sequence's last digest being paired with a copy of itself.
C14_LevelReduction ==
    [][(bpc = "merkle" /\ Len(vec) > 1) =>
          (bpc' = "merkle" /\ vec' = LevelAbove(vec))]_vars

C14_Witness ==
    /\ bpc = "merkle"
    /\ levels = <<5, 3>>
    /\ hashes[1] # hashes[2]
    /\ hashes[5] # Zero
    /\ vec = <<hash_pair(hashes[1], hashes[2]), hash_pair(hashes[3], hashes[4]),
               hash_pair(hashes[5], hashes[5])>>


\* C15: a feed appends a slot only from the frame past the last slot and only
\* when every slot is default there; then the walk is still authoritative, its
\* pairing carry has emptied every slot the feed found, and the new slot holds
\* the value carried out of the top level.  With any slot in use nothing is
\* appended.
C15_GrowthGuard ==
    pc = "ret" =>
        IF Len(slots[self]) # Len(start)
        THEN /\ Len(slots[self]) = Len(start) + 1
             /\ round = Len(start)
             /\ \A k \in 1..Len(start) : slots[self][k] = Zero
             /\ Last(slots[self]) = new
             /\ is_full
             /\ \A k \in 1..Len(start) : start[k] # Zero
        ELSE \E k \in 1..Len(slots[self]) : slots[self][k] # Zero


\* No digest of q is the default digest.
NoDefault(q) == \A k \in 1..Len(q) : q[k] # Zero

\* C16: fed a list without the default digest, under a hash that never returns
\* it, an instance created by new() returns after every feed MerkleTree::root of
\* the digests fed so far.
C16_EquivalenceHashedLeaves ==
    (pc = "idle" /\ origin[1] = "new" /\ returned[1] # <<>> /\ NoDefault(fed[1]))
        => returned[1] = <<MerkleTree_root(fed[1])>>

C16_Witness ==
    /\ pc = "idle"
    /\ origin[1] = "new"
    /\ Len(fed[1]) = 7
    /\ NoDefault(fed[1])
    /\ fed[1][6] # fed[1][7]
    /\ returned[1] = <<MerkleTree_root(fed[1])>>
    /\ slots[1] = <<fed[1][7], hash_pair(fed[1][5], fed[1][6]),
                    MerkleTree_root(SubSeq(fed[1], 1, 4))>>


\* The first leaf (counted from 0) of the block waiting at level r after n feeds:
\* n with its low r+1 bits cleared.
BlockStart(n, r) == n - (n % (2 ^ (r + 1)))

\* C17: in an instance created by new() and fed N digests, none the default,
\* every slot in use at level r holds MerkleTree::root of the 2^r leaves fed from
\* index BlockStart(N, r) on.
C17_SlotContent ==
    (pc = "idle" /\ origin[1] = "new" /\ NoDefault(fed[1])) =>
        \A r \in 0..(Len(slots[1]) - 1) :
            slots[1][r + 1] # Zero =>
                LET s == BlockStart(Len(fed[1]), r)
                IN  /\ s + 2 ^ r <= Len(fed[1])
                    /\ slots[1][r + 1] =
                          MerkleTree_root(SubSeq(fed[1], s + 1, s + 2 ^ r))

C17_Witness ==
    /\ pc = "idle"
    /\ origin[1] = "new"
    /\ Len(fed[1]) = 6
    /\ NoDefault(fed[1])
    /\ fed[1][5] # fed[1][6]
    /\ fed[1][1] # fed[1][2]
    /\ slots[1] = <<Zero, MerkleTree_root(SubSeq(fed[1], 5, 6)),
                    MerkleTree_root(SubSeq(fed[1], 1, 4))>>


\* C18: a feed reads and writes self.0 only, never self.1: an instance and the
\* one rebuilt by load from its slots, fed the same digests since, hold equal
\* slot vectors and returned equal roots, though load left the rebuilt one's
\* now() at the default.
C18_FeedReadsSlotsOnly ==
    (pc = "idle" /\ origin[2] = "load" /\ since(1) = since(2)) =>
        /\ slots[1] = slots[2]
        /\ returned[2] = (IF since(2) = <<>> THEN <<>> ELSE returned[1])
        /\ since(2) = <<>> => now(2) = Zero

C18_Witness ==
    /\ pc = "idle"
    /\ origin[2] = "load"
    /\ pre = 3
    /\ fed[1][1] # Zero
    /\ Len(since(2)) = 2
    /\ since(1) = since(2)
    /\ since(2)[1] # since(2)[2]
    /\ slots[1] = slots[2]
    /\ returned[1] = returned[2]
    /\ now(2) # Zero

====
